---- MODULE Spec2Model ----
(***************************************************************************)
(* Model of emr_cli.py: a command-line tool that keeps patient records in  *)
(* a CSV file.  Every command is one process run: it reads the whole file, *)
(* works on the rows in memory and, for add/update/delete, rewrites the    *)
(* whole file and appends a line to the log file.                          *)
(*                                                                         *)
(* Python strings are modelled as sequences of one-character strings, so   *)
(* that str(), int(), str.isdigit(), str.strip(), str.lower() and the      *)
(* substring test are computed character by character.  An optional value  *)
(* (an argparse argument that may be None) is <<>> for None and <<v>> for  *)
(* a given value v.                                                        *)
(***************************************************************************)
EXTENDS Integers, Sequences, FiniteSets, TLC

VARIABLES
    csvExists,  \* whether CSV_FILE exists on disk
    csvRows,    \* the data rows of CSV_FILE, in file order
    log,        \* the lines of LOG_FILE
    clock,      \* the last value datetime.utcnow() returned
    writes,     \* the write_all calls that replaced the file: operation and id
    last,       \* the last call: its name, arguments, I/O outcome, rows read
    out         \* what the last call printed or returned

vars == <<csvExists, csvRows, log, clock, writes, last, out>>

----------------------------------------------------------------------------
(* Bounds of the model *)

MaxClock == 4
MaxLog == 5
MaxFocusClock == 2
MaxProbeLen == 3

----------------------------------------------------------------------------
(* Python values *)

None == <<>>
Some(v) == <<v>>
IsNone(o) == o = <<>>
Val(o) == o[1]

\* truth value of an optional string: None and "" are false
TruthyStr(o) == ~IsNone(o) /\ Val(o) # <<>>
\* truth value of an optional int: None and 0 are false
TruthyInt(o) == ~IsNone(o) /\ Val(o) # 0

\* x or d, for an optional string x
OrStr(o, d) == IF TruthyStr(o) THEN Val(o) ELSE d

Digits == <<"0", "1", "2", "3", "4", "5", "6", "7", "8", "9">>

DigitChar(d) == Digits[d + 1]

IsDigitChar(c) == \E i \in 1..10 : Digits[i] = c

DigitVal(c) == (CHOOSE i \in 1..10 : Digits[i] = c) - 1

\* str(n) for an int n
RECURSIVE StrNat(_)
StrNat(n) == IF n < 10 THEN <<DigitChar(n)>>
             ELSE StrNat(n \div 10) \o <<DigitChar(n % 10)>>

Str(n) == IF n < 0 THEN <<"-">> \o StrNat(0 - n) ELSE StrNat(n)

\* s.isdigit(): non-empty and every character a digit
IsDigit(s) == Len(s) > 0 /\ \A i \in 1..Len(s) : IsDigitChar(s[i])

\* int(s) for a string of digits
RECURSIVE IntOf(_)
IntOf(s) == IF Len(s) = 0 THEN 0
            ELSE 10 * IntOf(SubSeq(s, 1, Len(s) - 1)) + DigitVal(s[Len(s)])

\* s.strip(): leading and trailing whitespace removed
IsSpace(c) == c = " "

RECURSIVE LStrip(_)
LStrip(s) == IF Len(s) > 0 /\ IsSpace(s[1]) THEN LStrip(Tail(s)) ELSE s

RECURSIVE RStrip(_)
RStrip(s) == IF Len(s) > 0 /\ IsSpace(s[Len(s)])
             THEN RStrip(SubSeq(s, 1, Len(s) - 1)) ELSE s

Strip(s) == RStrip(LStrip(s))

\* s.lower(), over the letters the model uses
LowerChar(c) == CASE c = "A" -> "a"
                  [] c = "B" -> "b"
                  [] c = "X" -> "x"
                  [] OTHER -> c

Lower(s) == [i \in 1..Len(s) |-> LowerChar(s[i])]

\* q in s
Contains(s, q) == \E i \in 0..(Len(s) - Len(q)) : SubSeq(s, i + 1, i + Len(q)) = q

\* s[:n] for n >= 0
Take(s, n) == SubSeq(s, 1, IF n < Len(s) THEN n ELSE Len(s))

\* max of a non-empty set of ints
Max(S) == CHOOSE m \in S : \A x \in S : x <= m

----------------------------------------------------------------------------
(* Record Store *)

FIELDNAMES == <<"id", "name", "age", "gender", "phone", "meds",
                "appointments", "notes", "created_at", "updated_at">>

\* next_id as "number of rows + 1": a variant that repeats an id after a delete
NextIdByCount(rows) == [ok |-> TRUE, val |-> Str(Len(rows) + 1)]

\* next_id without the "+ 1": a variant that hands out the maximum again
NextIdNoInc(rows) ==
    IF Len(rows) = 0 THEN [ok |-> TRUE, val |-> <<"1">>]
    ELSE LET ids == {IntOf(rows[i].id) : i \in {j \in 1..Len(rows) : IsDigit(rows[j].id)}}
         IN IF ids = {} THEN [ok |-> FALSE, val |-> <<>>]
            ELSE [ok |-> TRUE, val |-> Str(Max(ids))]

\* next_id(rows): "1" for no rows, else str(max of the digit ids + 1);
\* max([]) raises ValueError when rows are present and none has a digit id
NextId(rows) ==
    IF Len(rows) = 0 THEN [ok |-> TRUE, val |-> <<"1">>]
    ELSE LET ids == {IntOf(rows[i].id) : i \in {j \in 1..Len(rows) : IsDigit(rows[j].id)}}
         IN IF ids = {} THEN [ok |-> FALSE, val |-> <<>>]
            ELSE [ok |-> TRUE, val |-> Str(Max(ids) + 1)]

----------------------------------------------------------------------------
(* argparse: the namespaces parse_args builds from what the command line gives *)

DefaultLimit == 20

\* add: --gender defaults to "O", --meds/--appointments/--notes to ""
AddNamespace(c) ==
    [name |-> c.name,
     age |-> c.age,
     gender |-> IF IsNone(c.gender) THEN Some(<<"O">>) ELSE c.gender,
     phone |-> c.phone,
     meds |-> IF IsNone(c.meds) THEN Some(<<>>) ELSE c.meds,
     appointments |-> IF IsNone(c.appointments) THEN Some(<<>>) ELSE c.appointments,
     notes |-> IF IsNone(c.notes) THEN Some(<<>>) ELSE c.notes]

\* list: --limit defaults to 20
ListNamespace(c) ==
    [limit |-> IF IsNone(c.limit) THEN Some(DefaultLimit) ELSE c.limit]

----------------------------------------------------------------------------
(* Command handlers: the computations on the rows in memory *)

\* the record add_patient builds
NewRecord(pid, args, now) ==
    [id |-> pid,
     name |-> Strip(args.name),
     age |-> IF TruthyInt(args.age) THEN Str(Val(args.age)) ELSE <<>>,
     gender |-> OrStr(args.gender, <<>>),
     phone |-> OrStr(args.phone, <<>>),
     meds |-> OrStr(args.meds, <<>>),
     appointments |-> OrStr(args.appointments, <<>>),
     notes |-> OrStr(args.notes, <<>>),
     created_at |-> now,
     updated_at |-> now]

\* key of list_patients' sort
SortKey(row) == IntOf(row.id)

\* sorted(rows, key=...): stable insertion sort
RECURSIVE Insert(_, _)
Insert(sorted, row) ==
    IF Len(sorted) = 0 THEN <<row>>
    ELSE IF SortKey(sorted[Len(sorted)]) <= SortKey(row) THEN Append(sorted, row)
    ELSE Append(Insert(SubSeq(sorted, 1, Len(sorted) - 1), row), sorted[Len(sorted)])

RECURSIVE SortById(_)
SortById(rows) ==
    IF Len(rows) = 0 THEN <<>>
    ELSE Insert(SortById(SubSeq(rows, 1, Len(rows) - 1)), rows[Len(rows)])

FallbackLimit == 100
NameWidth == 25

\* limit = args.limit or 100
EffectiveLimit(args) == IF TruthyInt(args.limit) THEN Val(args.limit) ELSE FallbackLimit

\* the line list_patients prints for a row
ListLine(row) ==
    [id |-> row.id,
     name |-> Take(row.name, NameWidth),
     age |-> IF row.age # <<>> THEN row.age ELSE <<"-">>,
     phone |-> IF row.phone # <<>> THEN row.phone ELSE <<"-">>]

\* the lines list_patients prints (limit >= 0)
ListLines(rows, args) ==
    LET shown == Take(SortById(rows), EffectiveLimit(args))
    IN [i \in 1..Len(shown) |-> ListLine(shown[i])]

\* the test of search_patients' comprehension
Matches(row, query) == Contains(Lower(row.name), query) \/ Contains(row.phone, query)

\* results of search_patients
SearchResults(rows, args) ==
    LET query == Lower(OrStr(args.name, <<>>))
    IN SelectSeq(rows, LAMBDA row : Matches(row, query))

\* index of the first row update_patient's loop matches, 0 if none
RECURSIVE FirstMatch(_, _, _)
FirstMatch(rows, target, i) ==
    IF i > Len(rows) THEN 0
    ELSE IF rows[i].id = target THEN i
    ELSE FirstMatch(rows, target, i + 1)

\* the assignments update_patient makes to the matched row
PatchRow(row, args, now) ==
    [row EXCEPT
       !.name = IF TruthyStr(args.name) THEN Val(args.name) ELSE @,
       !.age = IF ~IsNone(args.age) THEN Str(Val(args.age)) ELSE @,
       !.gender = IF TruthyStr(args.gender) THEN Val(args.gender) ELSE @,
       !.phone = IF TruthyStr(args.phone) THEN Val(args.phone) ELSE @,
       !.meds = IF ~IsNone(args.meds) THEN Val(args.meds) ELSE @,
       !.appointments = IF ~IsNone(args.appointments) THEN Val(args.appointments) ELSE @,
       !.notes = IF ~IsNone(args.notes) THEN Val(args.notes) ELSE @,
       !.updated_at = now]

\* delete_patient comparing ids as numbers: a variant for which "01" removes "1"
DeleteRowsNumeric(rows, target) ==
    SelectSeq(rows, LAMBDA row : IF IsDigit(row.id) /\ IsDigit(target)
                                 THEN IntOf(row.id) # IntOf(target)
                                 ELSE row.id # target)

\* new_rows of delete_patient
DeleteRows(rows, target) == SelectSeq(rows, LAMBDA row : row.id # target)

\* ages of stats
StatsAges(rows) ==
    LET idx == SelectSeq([i \in 1..Len(rows) |-> i], LAMBDA i : IsDigit(rows[i].age))
    IN [k \in 1..Len(idx) |-> IntOf(rows[idx[k]].age)]

----------------------------------------------------------------------------
(* The log file and standard output *)

\* logging.info("<op> id=%s", id)
InfoLine(op, id) == [level |-> "INFO", op |-> op, id |-> id]

\* logging.exception("Error running command") in main
ErrorLine == [level |-> "ERROR", op |-> "Error running command", id |-> <<>>]

\* what a call printed: the messages, the id a message carries, the rows or
\* lines printed, and a returned value
Output(msgs, id, rows, val) == [msgs |-> msgs, id |-> id, rows |-> rows, val |-> val]

\* a write_all call that went through, made for operation op on record id
Written(op, id) == [op |-> op, id |-> id]

Call(cmd, args, io, rows) == [cmd |-> cmd, args |-> args, io |-> io, rows |-> rows]

\* outcomes of a command's file I/O: all of it works, read_all raises IOError,
\* or the open() for writing raises IOError (the file is left as it was)
IOs == {"ok", "read_fail", "write_fail"}

\* the model's bound on a run: a command starts only below it
InBudget == clock < MaxClock /\ Len(log) < MaxLog

\* main's except clause, for an IOError raised before the handler changed anything
ReadFails(cmd, c) ==
    /\ log' = Append(log, ErrorLine)
    /\ out' = Output(<<"Error:">>, <<>>, <<>>, <<>>)
    /\ last' = Call(cmd, c, "read_fail", <<>>)
    /\ UNCHANGED <<csvExists, csvRows, clock, writes>>

----------------------------------------------------------------------------
(* Commands: main(argv) dispatching to a handler *)

Init ==
    /\ csvExists \in BOOLEAN
    /\ csvRows = <<>>
    /\ log = <<>>
    /\ clock = 0
    /\ writes = <<>>
    /\ last = Call("none", <<>>, "ok", <<>>)
    /\ out = Output(<<>>, <<>>, <<>>, <<>>)

AddPatient(c, io) ==
    /\ InBudget
    /\ IF io = "read_fail" THEN ReadFails("add", c)
       ELSE LET args == AddNamespace(c)
                rows == csvRows
                nid == NextId(rows)
                now == clock + 1
                record == NewRecord(nid.val, args, now)
            IN /\ csvExists' = TRUE
               /\ last' = Call("add", c, io, rows)
               /\ IF ~nid.ok
                  THEN \* ValueError is not caught by main
                       /\ out' = Output(<<"Traceback">>, <<>>, <<>>, <<>>)
                       /\ UNCHANGED <<csvRows, log, clock, writes>>
                  ELSE /\ clock' = now
                       /\ IF io = "write_fail"
                          THEN /\ log' = Append(log, ErrorLine)
                               /\ out' = Output(<<"Error:">>, <<>>, <<>>, <<>>)
                               /\ UNCHANGED <<csvRows, writes>>
                          ELSE /\ csvRows' = Append(rows, record)
                               /\ log' = Append(log, InfoLine("ADD", nid.val))
                               /\ out' = Output(<<"Added patient">>, nid.val, <<>>, <<>>)
                               /\ writes' = Append(writes, Written("ADD", nid.val))

ListPatients(c, io) ==
    /\ InBudget
    /\ IF io = "read_fail" THEN ReadFails("list", c)
       ELSE /\ csvExists' = TRUE
            /\ last' = Call("list", c, io, csvRows)
            /\ out' = Output(<<>>, <<>>, ListLines(csvRows, ListNamespace(c)), <<>>)
            /\ UNCHANGED <<csvRows, log, clock, writes>>

SearchPatients(c, io) ==
    /\ InBudget
    /\ IF io = "read_fail" THEN ReadFails("search", c)
       ELSE LET results == SearchResults(csvRows, c)
            IN /\ csvExists' = TRUE
               /\ last' = Call("search", c, io, csvRows)
               /\ out' = IF Len(results) = 0
                         THEN Output(<<"No matching patients found.">>, <<>>, <<>>, <<>>)
                         ELSE Output(<<>>, <<>>, results, <<>>)
               /\ UNCHANGED <<csvRows, log, clock, writes>>

UpdatePatient(c, io) ==
    /\ InBudget
    /\ IF io = "read_fail" THEN ReadFails("update", c)
       ELSE LET rows == csvRows
                i == FirstMatch(rows, c.id, 1)
                now == clock + 1
            IN /\ csvExists' = TRUE
               /\ last' = Call("update", c, io, rows)
               /\ IF i = 0
                  THEN /\ out' = Output(<<"Patient id not found:">>, c.id, <<>>, <<>>)
                       /\ UNCHANGED <<csvRows, log, clock, writes>>
                  ELSE LET row == PatchRow(rows[i], c, now)
                           logged == Append(log, InfoLine("UPDATE", row.id))
                       IN /\ clock' = now
                          /\ IF io = "write_fail"
                             THEN /\ log' = Append(logged, ErrorLine)
                                  /\ out' = Output(<<"Updated:", "Error:">>, row.id, <<row>>, <<>>)
                                  /\ UNCHANGED <<csvRows, writes>>
                             ELSE /\ log' = logged
                                  /\ out' = Output(<<"Updated:">>, row.id, <<row>>, <<>>)
                                  /\ csvRows' = [rows EXCEPT ![i] = row]
                                  /\ writes' = Append(writes, Written("UPDATE", row.id))

DeletePatient(c, io) ==
    /\ InBudget
    /\ IF io = "read_fail" THEN ReadFails("delete", c)
       ELSE LET rows == csvRows
                new_rows == DeleteRows(rows, c.id)
            IN /\ csvExists' = TRUE
               /\ last' = Call("delete", c, io, rows)
               /\ UNCHANGED clock
               /\ IF Len(new_rows) = Len(rows)
                  THEN /\ out' = Output(<<"Patient id not found:">>, c.id, <<>>, <<>>)
                       /\ UNCHANGED <<csvRows, log, writes>>
                  ELSE IF io = "write_fail"
                  THEN /\ log' = Append(log, ErrorLine)
                       /\ out' = Output(<<"Error:">>, <<>>, <<>>, <<>>)
                       /\ UNCHANGED <<csvRows, writes>>
                  ELSE /\ csvRows' = new_rows
                       /\ writes' = Append(writes, Written("DELETE", c.id))
                       /\ log' = Append(log, InfoLine("DELETE", c.id))
                       /\ out' = Output(<<"Deleted patient id:">>, c.id, <<>>, <<>>)

\* io = "write_fail": the open() of the output file raises IOError
ExportData(c, io) ==
    /\ InBudget
    /\ IF io = "read_fail" THEN ReadFails("export", c)
       ELSE /\ csvExists' = TRUE
            /\ last' = Call("export", c, io, csvRows)
            /\ UNCHANGED <<csvRows, clock, writes>>
            /\ IF io = "write_fail"
               THEN /\ log' = Append(log, ErrorLine)
                    /\ out' = Output(<<"Error:">>, <<>>, <<>>, <<>>)
               ELSE /\ log' = log
                    /\ out' = Output(<<"Exported to">>, <<>>, csvRows, <<>>)

Stats(io) ==
    /\ InBudget
    /\ IF io = "read_fail" THEN ReadFails("stats", <<>>)
       ELSE /\ csvExists' = TRUE
            /\ last' = Call("stats", <<>>, io, csvRows)
            /\ out' = Output(<<"Total patients:", "Avg age:">>, <<>>, <<>>,
                             <<Len(csvRows), StatsAges(csvRows)>>)
            /\ UNCHANGED <<csvRows, log, clock, writes>>

\* a direct call of next_id on a list of rows
CallNextId(rows) ==
    LET nid == NextId(rows)
    IN /\ last' = Call("next_id", <<>>, "ok", rows)
       /\ out' = IF nid.ok THEN Output(<<>>, <<>>, <<>>, nid.val)
                 ELSE Output(<<"ValueError">>, <<>>, <<>>, <<>>)
       /\ UNCHANGED <<csvExists, csvRows, log, clock, writes>>

----------------------------------------------------------------------------
(* Command lines the model runs *)

AddCmd(name, age, gender, phone, notes) ==
    [name |-> name, age |-> age, gender |-> gender, phone |-> phone,
     meds |-> None, appointments |-> None, notes |-> notes]

UpdateCmd(id, name, age, gender, phone, meds, notes) ==
    [id |-> id, name |-> name, age |-> age, gender |-> gender, phone |-> phone,
     meds |-> meds, appointments |-> None, notes |-> notes]

\* ids given to update and delete: "01" is never an id of the store
TargetIds == {<<"1">>, <<"2">>, <<"0", "1">>}

AddCmds == {AddCmd(<<" ", "A", "b">>, None, None, None, None),
            AddCmd(<<"B">>, Some(30), Some(<<"F">>), Some(<<"5", "A">>), None)}

UpdateCmds == {UpdateCmd(id, None, None, None, None, None, notes) :
                 id \in TargetIds, notes \in {None, Some(<<"n">>)}}

DeleteCmds == {[id |-> id] : id \in TargetIds}

ListCmds == {[limit |-> None]}

SearchCmds == {[name |-> Some(<<"a">>)]}

ExportCmds == {[out |-> None]}

Next ==
    \/ \E c \in AddCmds, io \in IOs : AddPatient(c, io)
    \/ \E c \in ListCmds, io \in IOs \ {"write_fail"} : ListPatients(c, io)
    \/ \E c \in SearchCmds, io \in IOs \ {"write_fail"} : SearchPatients(c, io)
    \/ \E c \in UpdateCmds, io \in IOs : UpdatePatient(c, io)
    \/ \E c \in DeleteCmds, io \in IOs : DeletePatient(c, io)
    \/ \E c \in ExportCmds, io \in IOs : ExportData(c, io)
    \/ \E io \in IOs \ {"write_fail"} : Stats(io)

Spec == Init /\ [][Next]_vars

----------------------------------------------------------------------------
\* the shorter bound of the runs below that vary a command's arguments
InFocusBudget == clock < MaxFocusClock /\ Len(log) <= MaxFocusClock

----------------------------------------------------------------------------
(* Runs of add alone *)

NextAdd == \E c \in AddCmds, io \in IOs : AddPatient(c, io)

SpecAdd == Init /\ [][NextAdd]_vars

----------------------------------------------------------------------------
(* Direct calls of next_id, on lists of rows whose ids need not be numeric *)

ProbeIds == {<<"1">>, <<"2">>, <<"9">>, <<"1", "0">>, <<"a", "b">>, <<>>}

\* a row as csv.DictReader yields it, with the given id
ProbeRow(id) ==
    [id |-> id, name |-> <<"B">>, age |-> <<>>, gender |-> <<"O">>, phone |-> <<>>,
     meds |-> <<>>, appointments |-> <<>>, notes |-> <<>>,
     created_at |-> 0, updated_at |-> 0]

ProbeRows ==
    UNION {[1..n -> {ProbeRow(id) : id \in ProbeIds}] : n \in 0..MaxProbeLen}

NextNextId == \E rows \in ProbeRows : CallNextId(rows)

SpecNextId == Init /\ [][NextNextId]_vars

----------------------------------------------------------------------------
(* Runs that vary the fields given to add *)

RichAddCmds ==
    {AddCmd(name, age, gender, phone, notes) :
       name \in {<<" ", "A", "b", " ">>, <<"B">>},
       age \in {None, Some(0), Some(30)},
       gender \in {None, Some(<<"F">>)},
       phone \in {None, Some(<<"5", "A">>)},
       notes \in {None, Some(<<"n">>)}}

NextAddFields ==
    /\ InFocusBudget
    /\ \E c \in RichAddCmds, io \in IOs : AddPatient(c, io)

SpecAddFields == Init /\ [][NextAddFields]_vars

----------------------------------------------------------------------------
(* Runs that vary the fields given to update *)

FullAddCmds ==
    {[name |-> <<"A", "b">>, age |-> Some(30), gender |-> Some(<<"F">>),
      phone |-> Some(<<"5", "A">>), meds |-> Some(<<"m">>),
      appointments |-> None, notes |-> Some(<<"n">>)]}

RichUpdateCmds ==
    {UpdateCmd(id, name, age, gender, phone, meds, notes) :
       id \in {<<"1">>, <<"0", "1">>},
       name \in {None, Some(<<>>), Some(<<"B">>)},
       age \in {None, Some(0)},
       gender \in {None, Some(<<"M">>)},
       phone \in {None, Some(<<>>), Some(<<"7">>)},
       meds \in {None, Some(<<>>)},
       notes \in {None, Some(<<>>)}}

NextUpdateFields ==
    /\ InFocusBudget
    /\ \/ \E c \in FullAddCmds, io \in IOs : AddPatient(c, io)
       \/ \E c \in RichUpdateCmds, io \in IOs : UpdatePatient(c, io)

SpecUpdateFields == Init /\ [][NextUpdateFields]_vars

----------------------------------------------------------------------------
(* Runs that vary names, phones and search queries *)

SearchAddCmds ==
    {AddCmd(name, None, None, phone, None) :
       name \in {<<"A", "b">>, <<"B">>},
       phone \in {None, Some(<<"5", "X">>), Some(<<"5", "x">>)}}

Queries == {<<>>, <<"a">>, <<"A">>, <<"b">>, <<"x">>, <<"X">>, <<"5">>, <<"z">>}

RichSearchCmds == {[name |-> Some(q)] : q \in Queries}

NextSearch ==
    /\ InFocusBudget
    /\ \/ \E c \in SearchAddCmds, io \in IOs : AddPatient(c, io)
       \/ \E c \in RichSearchCmds, io \in IOs \ {"write_fail"} : SearchPatients(c, io)

SpecSearch == Init /\ [][NextSearch]_vars

----------------------------------------------------------------------------
(* Runs that vary the limit given to list *)

RichListCmds == {[limit |-> l] : l \in {None, Some(0), Some(1), Some(2), Some(3)}}

NextList ==
    \/ \E c \in AddCmds, io \in IOs : AddPatient(c, io)
    \/ \E c \in DeleteCmds, io \in IOs : DeletePatient(c, io)
    \/ \E c \in RichListCmds, io \in IOs \ {"write_fail"} : ListPatients(c, io)

SpecList == Init /\ [][NextList]_vars

----------------------------------------------------------------------------
(* Properties *)

\* the ids the successful adds assigned, in order
AddedIds ==
    LET adds == SelectSeq(writes, LAMBDA w : w.op = "ADD")
    IN [k \in 1..Len(adds) |-> adds[k].id]

\* the numeric ids among rows
NumericIds(rows) ==
    {IntOf(rows[i].id) : i \in {j \in 1..Len(rows) : IsDigit(rows[j].id)}}

\* whether some row has exactly the id target
HasId(rows, target) == \E i \in 1..Len(rows) : rows[i].id = target

\* index of the first row with the id target
FirstWithId(rows, target) ==
    CHOOSE i \in 1..Len(rows) :
        rows[i].id = target /\ \A j \in 1..(i - 1) : rows[j].id # target

\* rows without the row at index i
Without(rows, i) == SubSeq(rows, 1, i - 1) \o SubSeq(rows, i + 1, Len(rows))

Min(a, b) == IF a < b THEN a ELSE b

(* C1: after any sequence of add, update and delete commands from an empty
   store, no two records of the store have the same id. *)
UniqueIds ==
    \A i, j \in 1..Len(csvRows) : i # j => csvRows[i].id # csvRows[j].id

\* two records in the store after a delete and an update went through
UniqueIdsWitness ==
    /\ Len(csvRows) >= 2
    /\ \E k \in 1..Len(writes) : writes[k].op = "DELETE"
    /\ \E k \in 1..Len(writes) : writes[k].op = "UPDATE"

(* C2: an id is never reused: the id an add assigns differs from the id of
   every earlier add, also when that record has since been deleted. *)
IdNeverReused ==
    \A i, j \in 1..Len(AddedIds) : i # j => AddedIds[i] # AddedIds[j]

(* C3: in a run of adds from the empty store the first add is assigned "1",
   every later add an id strictly greater than all ids assigned before, and
   the id is 1 + the maximum numeric id in the store just before the add. *)
AddIdsIncreasing ==
    /\ Len(AddedIds) > 0 => AddedIds[1] = <<"1">>
    /\ \A i, j \in 1..Len(AddedIds) : i < j => IntOf(AddedIds[i]) < IntOf(AddedIds[j])
    /\ (last.cmd = "add" /\ out.msgs = <<"Added patient">> /\ last.rows # <<>>)
         => /\ IsDigit(out.id)
            /\ IntOf(out.id) = 1 + Max(NumericIds(last.rows))
            /\ csvRows[Len(csvRows)].id = out.id

\* a third add went through, after an add whose write failed
AddIdsIncreasingWitness ==
    /\ Len(AddedIds) >= 3
    /\ last.cmd = "add" /\ out.msgs = <<"Added patient">>
    /\ \E k \in 1..Len(log) : log[k].level = "ERROR"

(* C4: next_id never fails: it returns "1" for no rows and otherwise the
   string of one plus the maximum of the ids that are non-negative integers,
   rows with other ids being ignored. *)
NextIdNeverFails ==
    last.cmd = "next_id" =>
        /\ out.msgs = <<>>
        /\ last.rows = <<>> => out.val = <<"1">>
        /\ (last.rows # <<>> /\ NumericIds(last.rows) # {})
             => out.val = Str(1 + Max(NumericIds(last.rows)))

(* C5: an add appends exactly one record after the existing ones, which stay
   as they were; its name is the given name trimmed, its age the string of
   the given age (0 included) and empty only when none was given, its gender
   the given one or O, and created_at equals updated_at. *)
AddAppendsGivenFields ==
    (last.cmd = "add" /\ out.msgs = <<"Added patient">>) =>
        LET c == last.args
            r == csvRows[Len(csvRows)]
        IN /\ Len(csvRows) = Len(last.rows) + 1
           /\ SubSeq(csvRows, 1, Len(last.rows)) = last.rows
           /\ r.name = Strip(c.name)
           /\ r.age = IF IsNone(c.age) THEN <<>> ELSE Str(Val(c.age))
           /\ r.gender = IF IsNone(c.gender) THEN <<"O">> ELSE Val(c.gender)
           /\ r.phone = IF IsNone(c.phone) THEN <<>> ELSE Val(c.phone)
           /\ r.notes = IF IsNone(c.notes) THEN <<>> ELSE Val(c.notes)
           /\ r.created_at = r.updated_at

(* C6: an update of a stored id changes, in the first record with that id,
   exactly the fields given (the empty string included) and updated_at; id,
   created_at, the fields not given, the other records and the order stay. *)
UpdatePatchesGivenFields ==
    (last.cmd = "update" /\ last.io = "ok" /\ HasId(last.rows, last.args.id)) =>
        LET c == last.args
            i == FirstWithId(last.rows, c.id)
            old == last.rows[i]
            new == csvRows[i]
        IN /\ Len(csvRows) = Len(last.rows)
           /\ \A j \in 1..Len(csvRows) : j # i => csvRows[j] = last.rows[j]
           /\ new.id = old.id
           /\ new.created_at = old.created_at
           /\ new.updated_at = clock
           /\ new.name = IF IsNone(c.name) THEN old.name ELSE Val(c.name)
           /\ new.age = IF IsNone(c.age) THEN old.age ELSE Str(Val(c.age))
           /\ new.gender = IF IsNone(c.gender) THEN old.gender ELSE Val(c.gender)
           /\ new.phone = IF IsNone(c.phone) THEN old.phone ELSE Val(c.phone)
           /\ new.meds = IF IsNone(c.meds) THEN old.meds ELSE Val(c.meds)
           /\ new.appointments = IF IsNone(c.appointments) THEN old.appointments
                                 ELSE Val(c.appointments)
           /\ new.notes = IF IsNone(c.notes) THEN old.notes ELSE Val(c.notes)

(* C7: an update or delete of an id no record has leaves the store as it was
   and reports "not found", which a success never reports; a delete of a
   stored id removes exactly that one record and keeps the others in order. *)
MissingIdAndDelete ==
    (last.cmd \in {"update", "delete"} /\ last.io # "read_fail") =>
        LET target == last.args.id
            rows == last.rows
        IN /\ ~HasId(rows, target)
                => /\ csvRows = rows
                   /\ out.msgs = <<"Patient id not found:">>
           /\ HasId(rows, target)
                => \A k \in 1..Len(out.msgs) : out.msgs[k] # "Patient id not found:"
           /\ (last.cmd = "delete" /\ last.io = "ok" /\ HasId(rows, target))
                => /\ Len(csvRows) = Len(rows) - 1
                   /\ csvRows = Without(rows, FirstWithId(rows, target))
                   /\ out.msgs = <<"Deleted patient id:">>

\* a delete of "01" reported not found on a store that holds "1", after an
\* earlier delete went through
MissingIdAndDeleteWitness ==
    /\ last.cmd = "delete" /\ last.args.id = <<"0", "1">>
    /\ out.msgs = <<"Patient id not found:">>
    /\ HasId(csvRows, <<"1">>)
    /\ \E k \in 1..Len(writes) : writes[k].op = "DELETE"

(* C8: search returns, in file order, exactly the records whose name or
   phone contains the query, case ignored in both; with no such record it
   prints the "no results" message; the store is not modified. *)
SearchMatchesNameOrPhone ==
    (last.cmd = "search" /\ last.io = "ok") =>
        LET q == Lower(Val(last.args.name))
            expected == SelectSeq(last.rows,
                          LAMBDA r : \/ Contains(Lower(r.name), q)
                                     \/ Contains(Lower(r.phone), q))
        IN /\ csvRows = last.rows
           /\ IF Len(expected) = 0
              THEN out.msgs = <<"No matching patients found.">> /\ out.rows = <<>>
              ELSE out.msgs = <<>> /\ out.rows = expected

(* C9: list with limit L (20 when not given) prints the first L records in
   ascending id order, min(L, number of records) lines for every L >= 0,
   and does not modify the store. *)
ListPrintsFirstL ==
    (last.cmd = "list" /\ last.io = "ok") =>
        LET L == IF IsNone(last.args.limit) THEN DefaultLimit ELSE Val(last.args.limit)
            sorted == SortById(last.rows)
        IN /\ csvRows = last.rows
           /\ Len(out.rows) = Min(L, Len(last.rows))
           /\ \A k \in 1..Len(out.rows) : out.rows[k].id = sorted[k].id

(* C10: the log holds exactly one ADD, UPDATE or DELETE line, with the id,
   for each change that was written to the store, in the order written, and
   none for a change whose write failed or for any other command. *)
LogMatchesWrites ==
    LET info == SelectSeq(log, LAMBDA l : l.level = "INFO")
    IN /\ Len(info) = Len(writes)
       /\ \A k \in 1..Len(info) : Written(info[k].op, info[k].id) = writes[k]

====
